---- MODULE Spec2Model ----
(***************************************************************************)
(* A model of RestOC/Services.py: the result envelope (Effect), the        *)
(* default dispatch contract of a Service (create/read/update/delete and   *)
(* pathToMethod), the internal key scheme (internalKey) and the registry   *)
(* and router (register, verbose, __request and its four wrappers).        *)
(*                                                                         *)
(* Python strings are modelled as sequences of one-character strings, so   *)
(* that slicing, concatenation and scanning are computed as the code       *)
(* computes them.  Python values are tagged records of one shape.          *)
(***************************************************************************)
EXTENDS Integers, Sequences, FiniteSets, TLC

VARIABLES
    effNew,        \* the last Effect(data, error, warning) construction
    ptm,           \* the last direct Service.pathToMethod(path, append) call
    disp,          \* the last direct Service.create/read/update/delete call
    clock,         \* int(time()) of each process
    msSalt,        \* __msSalt of each process
    wire,          \* the internal key last generated, travelling between services
    keyCheck,      \* the last internalKey(key) validation
    mdRegistered,  \* __mdRegistered of the routing process
    mbVerbose,     \* __mbVerbose of the routing process
    lastRegister,  \* the last register(services, restconf, salt) call
    lastCall       \* the last __request(service, action, path, data, sesh) call

vars == <<effNew, ptm, disp, clock, msSalt, wire, keyCheck,
          mdRegistered, mbVerbose, lastRegister, lastCall>>

-----------------------------------------------------------------------------
(* Bounds *)

MaxPathLen == 4
MaxTick == 7

-----------------------------------------------------------------------------
(* Python values *)

PyNone == [t |-> "none", i |-> 0, s |-> <<>>]
PyAbsent == [t |-> "absent", i |-> 0, s |-> <<>>]
PyInt(n) == [t |-> "int", i |-> n, s |-> <<>>]
PyStr(str) == [t |-> "str", i |-> 0, s |-> str]
\* a value json.dumps cannot serialise (a set, bytes, a datetime)
PySet == [t |-> "set", i |-> 0, s |-> <<>>]

\* the error code table imported from the package; only the identity of the
\* codes matters here
Errors ==
    [SERVICE_ACTION |-> 1, SERVICE_STATUS |-> 2, SERVICE_CONTENT_TYPE |-> 3,
     SERVICE_UNREACHABLE |-> 4, SERVICE_NOT_REGISTERED |-> 5,
     SERVICE_NO_SUCH_NOUN |-> 6]

-----------------------------------------------------------------------------
(* Effect *)

\* the error attribute of an Effect: absent, or whatever was stored
NoError == [present |-> FALSE, d |-> {}]
ErrorDict(dict) == [present |-> TRUE, d |-> dict]
CodeMsg(code, msg) == ErrorDict({<<"code", code>>, <<"msg", msg>>})

EmptyEffect == [data |-> PyAbsent, error |-> NoError, warning |-> PyAbsent]

\* the outcome of a call: an Effect returned, or a fault raised
Returned(effect) == [ok |-> TRUE, fault |-> "", effect |-> effect]
Raised(fault) == [ok |-> FALSE, fault |-> fault, effect |-> EmptyEffect]

\* the shapes of the error argument
ArgNone == [t |-> "none", items |-> <<>>, d |-> {}, inner |-> NoError]
ArgInt(n) == [t |-> "int", items |-> <<PyInt(n)>>, d |-> {}, inner |-> NoError]
ArgStr(str) == [t |-> "str", items |-> <<PyStr(str)>>, d |-> {}, inner |-> NoError]
ArgTuple(items) == [t |-> "tuple", items |-> items, d |-> {}, inner |-> NoError]
ArgDict(dict) == [t |-> "dict", items |-> <<>>, d |-> dict, inner |-> NoError]
\* an Exception whose args are plain values
ArgExc(args) == [t |-> "exc", items |-> args, d |-> {}, inner |-> NoError]
\* an Exception whose args[0] is an Effect with the error attribute inner
ArgEffExc(inner) == [t |-> "effexc", items |-> <<>>, d |-> {}, inner |-> inner]
ArgFloat == [t |-> "float", items |-> <<>>, d |-> {}, inner |-> NoError]

\* Effect.__init__, the error argument
EffectError(error) ==
    CASE error.t = "int" -> Returned([EmptyEffect EXCEPT
                !.error = CodeMsg(error.items[1], PyStr(<<>>))])
      [] error.t = "str" -> Returned([EmptyEffect EXCEPT
                !.error = CodeMsg(PyInt(0), error.items[1])])
      [] error.t = "tuple" ->
            IF Len(error.items) < 2 THEN Raised("IndexError")
            ELSE Returned([EmptyEffect EXCEPT
                !.error = CodeMsg(error.items[1], error.items[2])])
      [] error.t = "dict" -> Returned([EmptyEffect EXCEPT
                !.error = ErrorDict(error.d)])
      [] error.t = "effexc" ->
            IF error.inner.present
            THEN Returned([EmptyEffect EXCEPT !.error = error.inner])
            ELSE Raised("AttributeError")
      [] error.t = "exc" ->
            IF Len(error.items) = 0 THEN Raised("IndexError")
            ELSE IF Len(error.items) > 1 THEN Raised("NameError")
            ELSE Returned([EmptyEffect EXCEPT
                !.error = CodeMsg(error.items[1], PyStr(<<>>))])
      [] OTHER -> Raised("ValueError")

\* Effect.__init__
EffectInit(data, error, warning) ==
    LET e0 == IF error.t = "none" THEN Returned(EmptyEffect)
              ELSE EffectError(error)
    IN  IF ~e0.ok THEN e0
        ELSE Returned([data |-> IF data.t = "none" THEN PyAbsent ELSE data,
                       error |-> e0.effect.error,
                       warning |-> IF warning.t = "none" THEN PyAbsent
                                   ELSE warning])

\* Effect(error=(code, msg)) as the module builds its own error envelopes
ErrorEffect(code, msg) ==
    EffectInit(PyNone, ArgTuple(<<PyInt(code), PyStr(msg)>>), PyNone).effect

\* json.dumps of a value: fails on a value that is not JSON
JsonSerialisable(v) == v.t \in {"absent", "none", "int", "str"}

\* Effect.__str__: json.dumps of the fields that are present
EffectStrOk(effect) ==
    /\ JsonSerialisable(effect.data)
    /\ JsonSerialisable(effect.warning)
    /\ \A kv \in effect.error.d : JsonSerialisable(kv[2])

-----------------------------------------------------------------------------
(* Service.pathToMethod *)

PathChars == {"a", "b", "/", "_"}
Separators == {"/", "_"}

\* str.upper on one character
Upper(c) == CASE c = "a" -> "A" [] c = "b" -> "B" [] OTHER -> c

RECURSIVE pathToMethodLoop(_, _, _)
pathToMethodLoop(path, i, sRet) ==
    IF ~(i < Len(path)) THEN [ok |-> TRUE, name |-> sRet]
    ELSE IF path[i + 1] \in Separators
         THEN IF i + 1 >= Len(path) THEN [ok |-> FALSE, name |-> <<>>]
              ELSE pathToMethodLoop(path, i + 2, Append(sRet, Upper(path[i + 2])))
         ELSE pathToMethodLoop(path, i + 1, Append(sRet, path[i + 1]))

\* ok = FALSE is the IndexError of path[i] past the end
pathToMethod(path, append) ==
    LET r == pathToMethodLoop(path, 0, <<>>)
    IN  IF r.ok THEN [ok |-> TRUE, name |-> r.name \o append] ELSE r

-----------------------------------------------------------------------------
(* Service: the default dispatch contract *)

\* the service instances, and the noun methods their classes define
Instances == {"h1", "h2"}
MethodsOf(inst) ==
    IF inst = "h1"
    THEN {<<"a", "_", "r", "e", "a", "d">>,
          <<"a", "B", "_", "c", "r", "e", "a", "t", "e">>,
          <<"a", "B", "_", "r", "e", "a", "d">>,
          <<"b", "_", "u", "p", "d", "a", "t", "e">>,
          <<"a", "_", "d", "e", "l", "e", "t", "e">>}
    ELSE {<<"b", "_", "r", "e", "a", "d">>,
          <<"_", "c", "r", "e", "a", "t", "e">>}

\* the sessions a caller passes: None, or a session object
Seshes == {"none", "s1"}

\* what a noun method does when it is called: it returns an Effect, raises
\* EffectException carrying an Effect, or raises something else
HandlerOutcomes ==
    {[kind |-> "return", fault |-> "",
      effect |-> [EmptyEffect EXCEPT !.data = PyStr(<<"o", "k">>)]],
     [kind |-> "return", fault |-> "",
      effect |-> [EmptyEffect EXCEPT !.data = PySet]],
     [kind |-> "raiseEffect", fault |-> "",
      effect |-> [EmptyEffect EXCEPT
                    !.error = CodeMsg(PyInt(7), PyStr(<<"n", "o">>))]],
     [kind |-> "raiseOther", fault |-> "RuntimeError", effect |-> EmptyEffect]}

\* the outcome of a dispatch: what was returned or raised, and the noun
\* methods that were called on the way
Dispatched(res, calls) == [res |-> res, calls |-> calls]

\* the body without the except clause for EffectException
ServiceDispatchNoCatch(inst, path, data, sesh, ho, suffix, verb) ==
    LET sMethod == pathToMethod(path, suffix)
    IN  IF ~sMethod.ok THEN Dispatched(Raised("IndexError"), <<>>)
        ELSE IF sMethod.name \notin MethodsOf(inst)
        THEN Dispatched(
                Returned(ErrorEffect(Errors.SERVICE_NO_SUCH_NOUN,
                                     verb \o <<" ">> \o path)), <<>>)
        ELSE LET call == [inst |-> inst, method |-> sMethod.name,
                          data |-> data,
                          sesh |-> IF sesh # "none" THEN sesh ELSE "omitted",
                          outcome |-> ho]
             IN  IF ho.kind = "raiseOther"
                 THEN Dispatched(Raised(ho.fault), <<call>>)
                 ELSE IF ho.kind = "raiseEffect"
                 THEN Dispatched([ok |-> FALSE, fault |-> "EffectException",
                                  effect |-> ho.effect], <<call>>)
                 ELSE Dispatched(Returned(ho.effect), <<call>>)

\* the body shared by Service.create, delete, read and update
ServiceDispatch(inst, path, data, sesh, ho, suffix, verb) ==
    LET sMethod == pathToMethod(path, suffix)
    IN  IF ~sMethod.ok THEN Dispatched(Raised("IndexError"), <<>>)
        ELSE IF sMethod.name \notin MethodsOf(inst)
        THEN Dispatched(
                Returned(ErrorEffect(Errors.SERVICE_NO_SUCH_NOUN,
                                     verb \o <<" ">> \o path)), <<>>)
        ELSE LET call == [inst |-> inst, method |-> sMethod.name,
                          data |-> data,
                          sesh |-> IF sesh # "none" THEN sesh ELSE "omitted",
                          outcome |-> ho]
             IN  IF ho.kind = "raiseOther"
                 THEN Dispatched(Raised(ho.fault), <<call>>)
                 ELSE Dispatched(Returned(ho.effect), <<call>>)

ServiceCreate(inst, path, data, sesh, ho) ==
    ServiceDispatch(inst, path, data, sesh, ho,
                    <<"_", "c", "r", "e", "a", "t", "e">>, <<"P", "O", "S", "T">>)

ServiceDelete(inst, path, data, sesh, ho) ==
    ServiceDispatch(inst, path, data, sesh, ho,
                    <<"_", "d", "e", "l", "e", "t", "e">>,
                    <<"D", "E", "L", "E", "T", "E">>)

ServiceRead(inst, path, data, sesh, ho) ==
    ServiceDispatch(inst, path, data, sesh, ho,
                    <<"_", "r", "e", "a", "d">>, <<"G", "E", "T">>)

ServiceUpdate(inst, path, data, sesh, ho) ==
    ServiceDispatch(inst, path, data, sesh, ho,
                    <<"_", "u", "p", "d", "a", "t", "e">>, <<"P", "U", "T">>)

\* getattr(instance, action)(path, data, sesh)
ServiceAction(inst, action, path, data, sesh, ho) ==
    CASE action = "create" -> ServiceCreate(inst, path, data, sesh, ho)
      [] action = "delete" -> ServiceDelete(inst, path, data, sesh, ho)
      [] action = "read" -> ServiceRead(inst, path, data, sesh, ho)
      [] action = "update" -> ServiceUpdate(inst, path, data, sesh, ho)
      [] OTHER -> Dispatched(Raised("AttributeError"), <<>>)

-----------------------------------------------------------------------------
(* internalKey *)

TimeBase == 1699999995
KeyTolerance == 5
SplitAt == 5

\* the routing process and a peer service that shares keys with it
Procs == {"router", "peer"}
\* __msSalt = None, which is no string
NoSalt == <<"None">>
Salts == {<<"k">>, <<"q">>}

Digits == <<"0", "1", "2", "3", "4", "5", "6", "7", "8", "9">>

\* str(iTime)
RECURSIVE IntToStr(_)
IntToStr(n) ==
    IF n < 10 THEN <<Digits[n + 1]>>
    ELSE Append(IntToStr(n \div 10), Digits[(n % 10) + 1])

IsDigit(c) == \E d \in 1..10 : Digits[d] = c
DigitValue(c) == (CHOOSE d \in 1..10 : Digits[d] = c) - 1

\* int(sTime): ok = FALSE is its ValueError
RECURSIVE StrToIntLoop(_, _, _)
StrToIntLoop(str, i, acc) ==
    IF i > Len(str) THEN acc
    ELSE StrToIntLoop(str, i + 1, acc * 10 + DigitValue(str[i]))

StrToInt(str) ==
    IF Len(str) = 0 \/ \E i \in 1..Len(str) : ~IsDigit(str[i])
    THEN [ok |-> FALSE, n |-> 0]
    ELSE [ok |-> TRUE, n |-> StrToIntLoop(str, 1, 0)]

\* key.split(':')
RECURSIVE SplitColon(_, _, _)
SplitColon(str, i, cur) ==
    IF i > Len(str) THEN <<cur>>
    ELSE IF str[i] = ":" THEN <<cur>> \o SplitColon(str, i + 1, <<>>)
    ELSE SplitColon(str, i + 1, Append(cur, str[i]))

Min(a, b) == IF a < b THEN a ELSE b

\* sTime[5:] and sTime[:5]
SliceFrom(str) == SubSeq(str, SplitAt + 1, Len(str))
SliceTo(str) == SubSeq(str, 1, Min(SplitAt, Len(str)))

\* sha1(...).hexdigest(), taken to be free of collisions: two digests are
\* equal exactly when the hashed bytes are
Sha1Hex(bytes) == <<"#">> \o bytes

KeyDigest(sTime, salt) == Sha1Hex(SliceFrom(sTime) \o salt \o SliceTo(sTime))

\* internalKey(): ok = FALSE is the AttributeError of None.encode
InternalKeyGenerate(iTime, salt) ==
    IF salt = NoSalt THEN [ok |-> FALSE, token |-> <<>>]
    ELSE LET sTime == IntToStr(iTime)
         IN  [ok |-> TRUE, token |-> KeyDigest(sTime, salt) \o <<":">> \o sTime]

\* the test with the tolerance taken one second short
TooOldAtFive(iTime, t) == iTime - t >= KeyTolerance

\* the test of line 199
TooOld(iTime, t) == iTime - t > KeyTolerance

\* internalKey(key)
InternalKeyValidate(key, iTime, salt) ==
    LET parts == SplitColon(key, 1, <<>>)
    IN  IF Len(parts) # 2 THEN FALSE
        ELSE LET t == StrToInt(parts[2])
             IN  IF ~t.ok THEN FALSE
                 ELSE IF TooOld(iTime, t.n) THEN FALSE
                 ELSE IF salt = NoSalt THEN FALSE
                 ELSE KeyDigest(parts[2], salt) = parts[1]

-----------------------------------------------------------------------------
(* The registry and the router *)

ServiceNames == {"auth", "data"}
Actions == {"create", "delete", "read", "update"}

\* __funcToRequest[action][1]
VerbOf(action) ==
    CASE action = "create" -> "POST"
      [] action = "delete" -> "DELETE"
      [] action = "read" -> "GET"
      [] action = "update" -> "PUT"

\* an entry of __mdRegistered; kind "none" is a name that is not a key
NotRegistered == [kind |-> "none", instance |-> "", url |-> <<>>]
Local(inst) == [kind |-> "instance", instance |-> inst, url |-> <<>>]
Remote(url) == [kind |-> "url", instance |-> "", url |-> url]

\* restconf[k]['url']
UrlOf(k) == <<k, ":", "/">>

\* what initialise returns: the instance itself, unless the class of the
\* instance overrides the hook and returns a wrapper
InitialiseOf(inst) == IF inst = "h2" THEN "h2d" ELSE inst

\* the values of a services dictionary
BindInstance(inst) == [t |-> "instance", inst |-> inst]
BindNone == [t |-> "none", inst |-> ""]
BindOther == [t |-> "other", inst |-> ""]

\* the loop storing what initialise returns in place of the instance
RECURSIVE RegisterLoopStoresHookResult(_, _, _, _, _)
RegisterLoopStoresHookResult(reg, items, i, restconf, hooks) ==
    IF i > Len(items) THEN [reg |-> reg, hooks |-> hooks, fault |-> "", done |-> i - 1]
    ELSE LET k == items[i][1]
             v == items[i][2]
         IN  IF v.t = "instance"
             THEN RegisterLoopStoresHookResult(
                        [reg EXCEPT ![k] = Local(InitialiseOf(v.inst))], items,
                        i + 1, restconf, Append(hooks, v.inst))
             ELSE IF v.t = "none"
             THEN IF k \notin restconf
                  THEN [reg |-> reg, hooks |-> hooks, fault |-> "ValueError",
                        done |-> i - 1]
                  ELSE RegisterLoopStoresHookResult(
                            [reg EXCEPT ![k] = Remote(UrlOf(k))], items, i + 1,
                            restconf, hooks)
             ELSE [reg |-> reg, hooks |-> hooks, fault |-> "ValueError",
                   done |-> i - 1]

\* the loop of register over services.items(); hooks are the initialise
\* calls made, fault the ValueError that ended the loop
RECURSIVE RegisterLoop(_, _, _, _, _)
RegisterLoop(reg, items, i, restconf, hooks) ==
    IF i > Len(items) THEN [reg |-> reg, hooks |-> hooks, fault |-> "", done |-> i - 1]
    ELSE LET k == items[i][1]
             v == items[i][2]
         IN  IF v.t = "instance"
             THEN RegisterLoop([reg EXCEPT ![k] = Local(v.inst)], items, i + 1,
                               restconf, Append(hooks, v.inst))
             ELSE IF v.t = "none"
             THEN IF k \notin restconf
                  THEN [reg |-> reg, hooks |-> hooks, fault |-> "ValueError",
                        done |-> i - 1]
                  ELSE RegisterLoop([reg EXCEPT ![k] = Remote(UrlOf(k))], items,
                                    i + 1, restconf, hooks)
             ELSE [reg |-> reg, hooks |-> hooks, fault |-> "ValueError",
                   done |-> i - 1]

\* register(services, restconf, salt), after the salt is stored
RegisterServices(reg, services, restconf) ==
    IF ~services.isDict
    THEN [reg |-> reg, hooks |-> <<>>, fault |-> "ValueError", done |-> 0]
    ELSE RegisterLoop(reg, services.items, 1, restconf, <<>>)

\* the response of the remote service to a request
NoConnection ==
    [conn |-> FALSE, status |-> 0, ctype |-> [present |-> FALSE, value |-> ""],
     body |-> [kind |-> "malformed", effect |-> EmptyEffect]]

ContentTypes ==
    {[present |-> FALSE, value |-> ""],
     [present |-> TRUE, value |-> "application/json; charset=utf-8"],
     [present |-> TRUE, value |-> "Application/JSON; charset=UTF-8"],
     [present |-> TRUE, value |-> "text/html"]}

\* str.lower on the content types above
StrLower(str) ==
    IF str = "Application/JSON; charset=UTF-8"
    THEN "application/json; charset=utf-8" ELSE str

\* response bodies: a JSON object, text that is not JSON, a JSON array
Bodies ==
    {[kind |-> "object",
      effect |-> [EmptyEffect EXCEPT !.data = PyStr(<<"o", "k">>)]],
     [kind |-> "malformed", effect |-> EmptyEffect],
     [kind |-> "array", effect |-> EmptyEffect]}

Responses ==
    {NoConnection} \cup
    [conn : {TRUE}, status : {200, 500}, ctype : ContentTypes, body : Bodies]

\* Effect.fromJSON: json.loads raises ValueError, fromDict raises TypeError
\* on a value that is no dict
EffectFromJSON(body) ==
    CASE body.kind = "object" -> Returned(body.effect)
      [] body.kind = "array" -> Raised("TypeError")
      [] OTHER -> Raised("ValueError")

\* the outcome of __request: what it returned or raised, the dispatch methods
\* it called with what they produced, the noun methods those called, the
\* HTTP requests it issued with the responses they got
Requested(res, dispatches, calls, http) ==
    [res |-> res, dispatches |-> dispatches, calls |-> calls, http |-> http]

RaisedEffect(effect) == [ok |-> FALSE, fault |-> "EffectException", effect |-> effect]

\* the verbose print of the result before it is returned (line 120)
ReturnEffect(verbose, res) ==
    IF res.ok /\ verbose /\ ~EffectStrOk(res.effect) THEN Raised("TypeError")
    ELSE res

\* the local branch of __request
RequestLocal(verbose, inst, action, path, data, sesh, ho) ==
    LET d == ServiceAction(inst, action, path, data, sesh, ho)
        dispatches == IF action \in Actions
                      THEN <<[inst |-> inst, action |-> action, path |-> path,
                              data |-> data, sesh |-> sesh, res |-> d.res]>>
                      ELSE <<>>
    IN  Requested(ReturnEffect(verbose, d.res), dispatches, d.calls, <<>>)

\* the request and the tests of its response (lines 101-114): early is a
\* return or a raise from inside the try, otherwise the body is parsed next
ClassifyResponse(resp) ==
    IF ~resp.conn
    THEN [early |-> TRUE,
          res |-> Returned(ErrorEffect(Errors.SERVICE_UNREACHABLE, <<"refused">>))]
    ELSE IF resp.status # 200
    THEN [early |-> TRUE,
          res |-> Returned(ErrorEffect(Errors.SERVICE_STATUS,
                     IntToStr(resp.status) \o <<":", " ", resp.body.kind>>))]
    ELSE IF ~resp.ctype.present
    THEN [early |-> TRUE, res |-> Raised("KeyError")]
    ELSE IF StrLower(resp.ctype.value) # "application/json; charset=utf-8"
    THEN [early |-> TRUE,
          res |-> Returned(ErrorEffect(Errors.SERVICE_CONTENT_TYPE,
                                       <<resp.ctype.value>>))]
    ELSE [early |-> FALSE, res |-> Returned(EmptyEffect)]

\* the remote branch of __request
RequestRemote(verbose, url, action, path, data, sesh, resp) ==
    IF action \notin Actions
    THEN Requested(Raised("KeyError"), <<>>, <<>>, <<>>)
    ELSE IF ~JsonSerialisable(data)
    THEN Requested(Raised("TypeError"), <<>>, <<>>, <<>>)
    ELSE LET req == [verb |-> VerbOf(action), url |-> url \o path, data |-> data,
                     auth |-> sesh, resp |-> resp]
             c == ClassifyResponse(resp)
         IN  Requested(IF c.early THEN c.res
                       ELSE ReturnEffect(verbose, EffectFromJSON(resp.body)),
                       <<>>, <<>>, <<req>>)

\* __request taking only a local instance for a registered service
RequestLocalOnly(reg, verbose, service, action, path, data, sesh, ho, resp) ==
    IF reg[service].kind = "instance"
    THEN RequestLocal(verbose, reg[service].instance, action, path, data,
                      sesh, ho)
    ELSE Requested(
            RaisedEffect(ErrorEffect(Errors.SERVICE_NOT_REGISTERED, <<service>>)),
            <<>>, <<>>, <<>>)

\* __request
Request(reg, verbose, service, action, path, data, sesh, ho, resp) ==
    IF reg[service].kind # "none"
    THEN IF reg[service].kind = "instance"
         THEN RequestLocal(verbose, reg[service].instance, action, path, data,
                           sesh, ho)
         ELSE RequestRemote(verbose, reg[service].url, action, path, data, sesh,
                            resp)
    ELSE Requested(
            RaisedEffect(ErrorEffect(Errors.SERVICE_NOT_REGISTERED, <<service>>)),
            <<>>, <<>>, <<>>)

-----------------------------------------------------------------------------
(* Inputs *)

Paths == UNION {[1..n -> PathChars] : n \in 0..MaxPathLen}
Appends == {<<>>, <<"_", "r", "e", "a", "d">>}
RouterPaths == {<<"a">>, <<"b">>}
DataValues == {PyStr(<<"x">>), PySet}
ActionTokens == Actions \cup {"patch"}

Leaves == {PyInt(3), PyStr(<<"e">>)}
LeafSeqs(n) == UNION {[1..m -> Leaves] : m \in 0..n}
Dicts ==
    {{}, {<<"code", PyInt(3)>>, <<"msg", PyStr(<<"e">>)>>},
     {<<"code", PyStr(<<"e">>)>>, <<"msg", PyStr(<<"e">>)>>},
     {<<"msg", PyStr(<<"e">>)>>}, {<<"detail", PySet>>}}
ErrorArgs ==
    {ArgNone, ArgInt(3), ArgInt(0), ArgStr(<<"e">>), ArgStr(<<>>), ArgFloat}
    \cup {ArgTuple(a) : a \in LeafSeqs(3)}
    \cup {ArgDict(d) : d \in Dicts}
    \cup {ArgExc(a) : a \in LeafSeqs(2)}
    \cup {ArgEffExc(NoError)} \cup {ArgEffExc(ErrorDict(d)) : d \in Dicts}

Dict(items) == [isDict |-> TRUE, items |-> items]
ServicesInputs ==
    {[isDict |-> FALSE, items |-> <<>>],
     Dict(<<>>),
     Dict(<< <<"auth", BindInstance("h1")>> >>),
     Dict(<< <<"auth", BindInstance("h2")>>, <<"data", BindNone>> >>),
     Dict(<< <<"data", BindInstance("h1")>>, <<"auth", BindNone>> >>),
     Dict(<< <<"auth", BindNone>> >>),
     Dict(<< <<"data", BindInstance("h2")>>, <<"auth", BindOther>> >>)}
RestConfs == {{"auth", "data"}, {"auth"}}

-----------------------------------------------------------------------------
(* State *)

NoEffNew ==
    [done |-> FALSE, data |-> PyNone, error |-> ArgNone, warning |-> PyNone,
     res |-> Raised("")]
NoPtm ==
    [done |-> FALSE, path |-> <<>>, append |-> <<>>,
     res |-> [ok |-> FALSE, name |-> <<>>]]
NoDisp ==
    [done |-> FALSE, inst |-> "h1", action |-> "", path |-> <<>>,
     data |-> PyNone, sesh |-> "none", out |-> Dispatched(Raised(""), <<>>)]
NoWire == [present |-> FALSE, token |-> <<>>, by |-> "", at |-> 0, salt |-> NoSalt]
NoCheck ==
    [done |-> FALSE, by |-> "", key |-> <<>>, now |-> 0, salt |-> NoSalt,
     result |-> FALSE, src |-> NoWire]
NoRequest == Requested(Raised(""), <<>>, <<>>, <<>>)
NoCall ==
    [done |-> FALSE, service |-> "", action |-> "", path |-> <<>>,
     data |-> PyNone, sesh |-> "none", verbose |-> FALSE,
     entry |-> NotRegistered,
     before |-> [k \in ServiceNames |-> NotRegistered], out |-> NoRequest]
NoRegister ==
    [done |-> FALSE, services |-> [isDict |-> TRUE, items |-> <<>>],
     restconf |-> {}, fault |-> "", hooks |-> <<>>, processed |-> 0,
     bound |-> {}]

\* the process after import: nothing registered, no salt, verbose off
Init ==
    /\ effNew = NoEffNew
    /\ ptm = NoPtm
    /\ disp = NoDisp
    /\ clock = [p \in Procs |-> TimeBase]
    /\ msSalt = [p \in Procs |-> NoSalt]
    /\ wire = NoWire
    /\ keyCheck = NoCheck
    /\ mdRegistered = [k \in ServiceNames |-> NotRegistered]
    /\ mbVerbose = FALSE
    /\ lastRegister = NoRegister
    /\ lastCall = NoCall

-----------------------------------------------------------------------------
(* Effect construction: the arguments are drawn at the start *)

InitEffect ==
    /\ \E data \in {PyNone, PyStr(<<"x">>), PyInt(0), PySet},
          error \in ErrorArgs, warning \in {PyNone, PyStr(<<"w">>)} :
            effNew = [NoEffNew EXCEPT !.data = data, !.error = error,
                                      !.warning = warning]
    /\ ptm = NoPtm
    /\ disp = NoDisp
    /\ clock = [p \in Procs |-> TimeBase]
    /\ msSalt = [p \in Procs |-> NoSalt]
    /\ wire = NoWire
    /\ keyCheck = NoCheck
    /\ mdRegistered = [k \in ServiceNames |-> NotRegistered]
    /\ mbVerbose = FALSE
    /\ lastRegister = NoRegister
    /\ lastCall = NoCall

NewEffect ==
    /\ ~effNew.done
    /\ effNew' = [effNew EXCEPT
                    !.done = TRUE,
                    !.res = EffectInit(effNew.data, effNew.error, effNew.warning)]
    /\ UNCHANGED <<ptm, disp, clock, msSalt, wire, keyCheck, mdRegistered,
                   mbVerbose, lastRegister, lastCall>>

SpecEffect == InitEffect /\ [][NewEffect]_vars

-----------------------------------------------------------------------------
(* Service.pathToMethod called directly: the arguments are drawn at the start *)

InitPath ==
    /\ effNew = NoEffNew
    /\ \E path \in Paths, append \in Appends :
            ptm = [NoPtm EXCEPT !.path = path, !.append = append]
    /\ disp = NoDisp
    /\ clock = [p \in Procs |-> TimeBase]
    /\ msSalt = [p \in Procs |-> NoSalt]
    /\ wire = NoWire
    /\ keyCheck = NoCheck
    /\ mdRegistered = [k \in ServiceNames |-> NotRegistered]
    /\ mbVerbose = FALSE
    /\ lastRegister = NoRegister
    /\ lastCall = NoCall

PathToMethod ==
    /\ ~ptm.done
    /\ ptm' = [ptm EXCEPT !.done = TRUE,
                          !.res = pathToMethod(ptm.path, ptm.append)]
    /\ UNCHANGED <<effNew, disp, clock, msSalt, wire, keyCheck, mdRegistered,
                   mbVerbose, lastRegister, lastCall>>

SpecPath == InitPath /\ [][PathToMethod]_vars

-----------------------------------------------------------------------------
(* The dispatch methods of a Service called directly: the arguments are    *)
(* drawn at the start, the noun method does what it does when it is called *)

InitService ==
    /\ effNew = NoEffNew
    /\ ptm = NoPtm
    /\ \E inst \in Instances, path \in Paths, data \in DataValues,
          sesh \in Seshes :
            disp = [NoDisp EXCEPT !.inst = inst, !.path = path, !.data = data,
                                  !.sesh = sesh]
    /\ clock = [p \in Procs |-> TimeBase]
    /\ msSalt = [p \in Procs |-> NoSalt]
    /\ wire = NoWire
    /\ keyCheck = NoCheck
    /\ mdRegistered = [k \in ServiceNames |-> NotRegistered]
    /\ mbVerbose = FALSE
    /\ lastRegister = NoRegister
    /\ lastCall = NoCall

DoService(action) ==
    /\ ~disp.done
    /\ \E ho \in HandlerOutcomes :
        disp' = [disp EXCEPT
                    !.done = TRUE, !.action = action,
                    !.out = ServiceAction(disp.inst, action, disp.path, disp.data,
                                         disp.sesh, ho)]
    /\ UNCHANGED <<effNew, ptm, clock, msSalt, wire, keyCheck, mdRegistered,
                   mbVerbose, lastRegister, lastCall>>

DoServiceCreate == DoService("create")
DoServiceDelete == DoService("delete")
DoServiceRead == DoService("read")
DoServiceUpdate == DoService("update")

NextService ==
    \/ DoServiceCreate
    \/ DoServiceDelete
    \/ DoServiceRead
    \/ DoServiceUpdate

SpecService == InitService /\ [][NextService]_vars

-----------------------------------------------------------------------------
(* The internal key between two services.  keyCheck is the validation made *)
(* by the step just taken: every other step clears it.                     *)

Tick(p) ==
    /\ clock[p] < TimeBase + MaxTick
    /\ clock' = [clock EXCEPT ![p] = @ + 1]
    /\ keyCheck' = NoCheck
    /\ UNCHANGED <<effNew, ptm, disp, msSalt, wire, mdRegistered, mbVerbose,
                   lastRegister, lastCall>>

\* register({}, restconf, salt) in process p: the salt is stored
SetSalt(p) ==
    \E salt \in Salts :
        /\ msSalt' = [msSalt EXCEPT ![p] = salt]
        /\ keyCheck' = NoCheck
        /\ UNCHANGED <<effNew, ptm, disp, clock, wire, mdRegistered, mbVerbose,
                       lastRegister, lastCall>>

\* internalKey() in process p; the key is sent to the other service
Generate(p) ==
    LET k == InternalKeyGenerate(clock[p], msSalt[p])
    IN  /\ wire' = IF k.ok
                   THEN [present |-> TRUE, token |-> k.token, by |-> p,
                         at |-> clock[p], salt |-> msSalt[p]]
                   ELSE wire
        /\ keyCheck' = NoCheck
        /\ UNCHANGED <<effNew, ptm, disp, clock, msSalt, mdRegistered, mbVerbose,
                       lastRegister, lastCall>>

\* what may arrive in place of a key that was sent: the key, the key with
\* the first character of its digest changed, the key without its colon,
\* the key with a timestamp that is no number
Arrivals(token) ==
    {token,
     <<"!">> \o Tail(token),
     SelectSeq(token, LAMBDA c : c # ":"),
     SplitColon(token, 1, <<>>)[1] \o <<":", "x">>}

\* internalKey(key) in process p, which consumes the key
Validate(p) ==
    /\ wire.present
    /\ \E key \in Arrivals(wire.token) :
        keyCheck' = [done |-> TRUE, by |-> p, key |-> key, now |-> clock[p],
                     salt |-> msSalt[p],
                     result |-> InternalKeyValidate(key, clock[p], msSalt[p]),
                     src |-> wire]
    /\ wire' = NoWire
    /\ UNCHANGED <<effNew, ptm, disp, clock, msSalt, mdRegistered, mbVerbose,
                   lastRegister, lastCall>>

NextKey ==
    \/ \E p \in Procs : Tick(p)
    \/ \E p \in Procs : SetSalt(p)
    \/ \E p \in Procs : Generate(p)
    \/ \E p \in Procs : Validate(p)

SpecKey == Init /\ [][NextKey]_vars

-----------------------------------------------------------------------------
(* The routing process.  __request changes nothing of the process, so the  *)
(* model follows one request for each configuration: lastCall is the       *)
(* request made since register or verbose was last called.  The bound      *)
(* field of lastRegister collects the names every register call has bound. *)

register ==
    \E services \in ServicesInputs, restconf \in RestConfs, salt \in Salts :
        LET r == RegisterServices(mdRegistered, services, restconf)
        IN  /\ msSalt' = [msSalt EXCEPT !["router"] = salt]
            /\ mdRegistered' = r.reg
            /\ lastRegister' = [done |-> TRUE, services |-> services,
                                restconf |-> restconf, fault |-> r.fault,
                                hooks |-> r.hooks, processed |-> r.done,
                                bound |-> lastRegister.bound \cup
                                    {services.items[j][1] : j \in 1..r.done}]
            /\ lastCall' = NoCall
            /\ UNCHANGED <<effNew, ptm, disp, clock, wire, keyCheck, mbVerbose>>

verbose ==
    \E flag \in BOOLEAN :
        /\ mbVerbose' = flag
        /\ lastCall' = NoCall
        /\ UNCHANGED <<effNew, ptm, disp, clock, msSalt, wire, keyCheck,
                       mdRegistered, lastRegister>>

\* what the world does during a request: the noun method that is reached
\* behaves as it does, the remote service answers as it does
Worlds(entry) ==
    CASE entry.kind = "instance" ->
            {[ho |-> ho, resp |-> NoConnection] : ho \in HandlerOutcomes}
      [] entry.kind = "url" ->
            {[ho |-> [kind |-> "raiseOther", fault |-> "RuntimeError",
                      effect |-> EmptyEffect],
              resp |-> resp] : resp \in Responses}
      [] OTHER ->
            {[ho |-> [kind |-> "raiseOther", fault |-> "RuntimeError",
                      effect |-> EmptyEffect],
              resp |-> NoConnection]}

\* a call of __request with the action token given
DoRequest(action) ==
    /\ ~lastCall.done
    /\ \E service \in ServiceNames, path \in RouterPaths, data \in DataValues,
          sesh \in Seshes :
        \E w \in Worlds(mdRegistered[service]) :
            lastCall' = [done |-> TRUE, service |-> service, action |-> action,
                         path |-> path, data |-> data, sesh |-> sesh,
                         verbose |-> mbVerbose, entry |-> mdRegistered[service],
                         before |-> mdRegistered,
                         out |-> Request(mdRegistered, mbVerbose, service,
                                         action, path, data, sesh, w.ho, w.resp)]
    /\ UNCHANGED <<effNew, ptm, disp, clock, msSalt, wire, keyCheck,
                   mdRegistered, mbVerbose, lastRegister>>

create == DoRequest("create")
delete == DoRequest("delete")
read == DoRequest("read")
update == DoRequest("update")

\* __request called with an action token that none of the four wrappers passes
request == \E action \in ActionTokens \ Actions : DoRequest(action)

Next ==
    \/ register
    \/ verbose
    \/ create
    \/ delete
    \/ read
    \/ update
    \/ request

Spec == Init /\ [][Next]_vars

-----------------------------------------------------------------------------
(* Properties *)

HasErrorKind(res, code) ==
    /\ res.ok
    /\ res.effect.error.present
    /\ <<"code", PyInt(code)>> \in res.effect.error.d

IsNormalised(err) ==
    /\ err.present
    /\ Cardinality(err.d) = 2
    /\ \E c \in err.d : c[1] = "code" /\ c[2].t = "int"
    /\ \E m \in err.d : m[1] = "msg" /\ m[2].t = "str"

\* the per-verb suffix and verb of the dispatch contract
SuffixTag(action) ==
    CASE action = "create" -> <<"_", "c", "r", "e", "a", "t", "e">>
      [] action = "read" -> <<"_", "r", "e", "a", "d">>
      [] action = "update" -> <<"_", "u", "p", "d", "a", "t", "e">>
      [] action = "delete" -> <<"_", "d", "e", "l", "e", "t", "e">>
VerbTag(action) ==
    CASE action = "create" -> <<"P", "O", "S", "T">>
      [] action = "read" -> <<"G", "E", "T">>
      [] action = "update" -> <<"P", "U", "T">>
      [] action = "delete" -> <<"D", "E", "L", "E", "T", "E">>

\* the path-to-method rule as it is stated: every separator is dropped,
\* the character after a separator is upper-cased
RECURSIVE StatedRule(_, _)
StatedRule(path, i) ==
    IF i > Len(path) THEN <<>>
    ELSE IF path[i] \in Separators THEN StatedRule(path, i + 1)
    ELSE <<IF i > 1 /\ path[i - 1] \in Separators
           THEN Upper(path[i]) ELSE path[i]>> \o StatedRule(path, i + 1)

\* C1: a request raises the fault ServiceNotRegistered(service) exactly when
\* no register call has bound the service name; it then returns no Effect,
\* calls no dispatch method and no noun method, issues no HTTP request, and
\* the registry is as it was before the request.
C1_NotRegisteredIsFatal ==
    lastCall.done =>
        LET out == lastCall.out
            notRegistered ==
                /\ ~out.res.ok
                /\ out.res.fault = "EffectException"
                /\ out.res.effect.error =
                        CodeMsg(PyInt(Errors.SERVICE_NOT_REGISTERED),
                                PyStr(<<lastCall.service>>))
        IN  /\ notRegistered <=> lastCall.service \notin lastRegister.bound
            /\ notRegistered =>
                    /\ out.dispatches = <<>>
                    /\ out.calls = <<>>
                    /\ out.http = <<>>
            /\ mdRegistered = lastCall.before

\* a request for a name that was never bound has been made, after another
\* name was bound
C1_Witness ==
    /\ lastCall.done
    /\ lastRegister.bound # {}
    /\ lastCall.service \notin lastRegister.bound
    /\ ~lastCall.out.res.ok

\* C2: a request for a local service with one of the four actions calls the
\* dispatch method of the registered instance once with (path, data, sesh),
\* issues no HTTP request, and its outcome is exactly the outcome of that
\* dispatch method, whatever the verbose flag is.
C2_LocalVerbatim ==
    (lastCall.done /\ lastCall.entry.kind = "instance"
        /\ lastCall.action \in Actions) =>
        /\ Len(lastCall.out.dispatches) = 1
        /\ lastCall.out.dispatches[1].inst = lastCall.entry.instance
        /\ lastCall.out.dispatches[1].action = lastCall.action
        /\ lastCall.out.dispatches[1].path = lastCall.path
        /\ lastCall.out.dispatches[1].data = lastCall.data
        /\ lastCall.out.dispatches[1].sesh = lastCall.sesh
        /\ lastCall.out.http = <<>>
        /\ lastCall.out.res = lastCall.out.dispatches[1].res

\* C3: a request for a remote service with one of the four actions returns
\* an Effect and does not raise: ServiceUnreachable when the connection
\* failed, otherwise ServiceStatus when the status is not 200, otherwise
\* ServiceContentType when the content type is not the JSON one compared
\* without case, otherwise the Effect parsed from the body.
C3_RemoteClassified ==
    (lastCall.done /\ lastCall.entry.kind = "url"
        /\ lastCall.action \in Actions) =>
        /\ lastCall.out.res.ok
        /\ Len(lastCall.out.http) = 1
        /\ LET resp == lastCall.out.http[1].resp
               res == lastCall.out.res
           IN  IF ~resp.conn
               THEN HasErrorKind(res, Errors.SERVICE_UNREACHABLE)
               ELSE IF resp.status # 200
               THEN HasErrorKind(res, Errors.SERVICE_STATUS)
               ELSE IF ~(resp.ctype.present /\ StrLower(resp.ctype.value)
                            = "application/json; charset=utf-8")
               THEN HasErrorKind(res, Errors.SERVICE_CONTENT_TYPE)
               ELSE resp.body.kind = "object" /\ res.effect = resp.body.effect

\* C4: a request for a registered service with an action token outside the
\* verb map returns an Effect of error kind ServiceAction, raises nothing
\* and issues no HTTP request.
C4_UnknownActionEnvelope ==
    (lastCall.done /\ lastCall.entry.kind # "none"
        /\ lastCall.action \notin Actions) =>
        /\ HasErrorKind(lastCall.out.res, Errors.SERVICE_ACTION)
        /\ lastCall.out.http = <<>>

\* C5: a key generated at time T, arriving unchanged at a validator that
\* holds the salt it was generated with, is accepted at every validator time
\* from T to T+5 and rejected at every validator time from T+6 on.
C5_KeyWindow ==
    (keyCheck.done /\ keyCheck.key = keyCheck.src.token
        /\ keyCheck.salt = keyCheck.src.salt) =>
        /\ (keyCheck.src.at <= keyCheck.now /\ keyCheck.now <= keyCheck.src.at + 5)
                => keyCheck.result
        /\ keyCheck.now >= keyCheck.src.at + 6 => ~keyCheck.result

\* a key is accepted five seconds after it was generated
C5_Witness ==
    /\ keyCheck.done
    /\ keyCheck.key = keyCheck.src.token
    /\ keyCheck.salt = keyCheck.src.salt
    /\ keyCheck.now = keyCheck.src.at + 5
    /\ keyCheck.result

\* C6: a key is accepted only if its digest is the digest of its timestamp
\* under the validator's salt and its timestamp is within 5 seconds of the
\* validator's time, behind or ahead.
C6_ValidOnlyWithinTolerance ==
    (keyCheck.done /\ keyCheck.result) =>
        LET parts == SplitColon(keyCheck.key, 1, <<>>)
            t == StrToInt(parts[2]).n
        IN  /\ Len(parts) = 2
            /\ parts[1] = KeyDigest(parts[2], keyCheck.salt)
            /\ keyCheck.now - t <= 5
            /\ t - keyCheck.now <= 5

\* C7: pathToMethod drops every '/' and '_' of the path and upper-cases the
\* character after it, so that nothing of the path leaves a separator in the
\* name; a path that ends with a separator gives no name.
C7_PathRule ==
    ptm.done =>
        IF Len(ptm.path) > 0 /\ ptm.path[Len(ptm.path)] \in Separators
        THEN ~ptm.res.ok
        ELSE /\ ptm.res.ok
             /\ ptm.res.name = StatedRule(ptm.path, 1) \o ptm.append

\* C8: a default dispatch method returns the NoSuchNoun Effect with detail
\* '<VERB> <path>' and calls nothing when the instance has no method named
\* pathToMethod(path) plus the suffix of the verb; when it has one it calls
\* it once, with (data, sesh) if there is a session and (data) if not, and
\* returns the Effect the method returns or the Effect carried by the
\* EffectException it raises, and any other fault of the method propagates.
\* A path pathToMethod gives no name for raises IndexError and calls nothing.
C8_DispatchByResolution ==
    disp.done =>
        LET name == pathToMethod(disp.path, SuffixTag(disp.action))
            res == disp.out.res
            calls == disp.out.calls
        IN  IF ~name.ok
            THEN ~res.ok /\ res.fault = "IndexError" /\ calls = <<>>
            ELSE IF name.name \notin MethodsOf(disp.inst)
            THEN /\ res.ok
                 /\ res.effect =
                        [EmptyEffect EXCEPT !.error =
                            CodeMsg(PyInt(Errors.SERVICE_NO_SUCH_NOUN),
                                    PyStr(VerbTag(disp.action) \o <<" ">>
                                          \o disp.path))]
                 /\ calls = <<>>
            ELSE /\ Len(calls) = 1
                 /\ calls[1].inst = disp.inst
                 /\ calls[1].method = name.name
                 /\ calls[1].data = disp.data
                 /\ calls[1].sesh =
                        (IF disp.sesh = "none" THEN "omitted" ELSE disp.sesh)
                 /\ calls[1].outcome.kind \in {"return", "raiseEffect"}
                        => res.ok /\ res.effect = calls[1].outcome.effect
                 /\ calls[1].outcome.kind = "raiseOther"
                        => ~res.ok /\ res.fault = calls[1].outcome.fault

\* a noun method raised EffectException and the Effect it carried was returned
C8_Witness ==
    /\ disp.done
    /\ Len(disp.out.calls) = 1
    /\ disp.out.calls[1].outcome.kind = "raiseEffect"
    /\ disp.out.res.ok
    /\ disp.out.res.effect = disp.out.calls[1].outcome.effect

\* C9: an Effect constructed with an error either is not constructed or
\* holds an error of the form {code: integer, msg: string}: an integer n
\* gives {n, ""}, a string s gives {0, s}, a pair gives {pair[0], pair[1]},
\* a mapping with code and msg is stored as it is, a fault that wraps an
\* Effect gives the error of that Effect, and every other shape fails with
\* ValueError('error').
C9_ErrorNormalised ==
    (effNew.done /\ effNew.error.t # "none") =>
        LET a == effNew.error
            r == effNew.res
            mapping == a.t = "dict" /\ {kv[1] : kv \in a.d} = {"code", "msg"}
        IN  /\ r.ok => IsNormalised(r.effect.error)
            /\ a.t = "int" =>
                    r.ok /\ r.effect.error = CodeMsg(a.items[1], PyStr(<<>>))
            /\ a.t = "str" =>
                    r.ok /\ r.effect.error = CodeMsg(PyInt(0), a.items[1])
            /\ (a.t = "tuple" /\ Len(a.items) = 2) =>
                    r.ok /\ r.effect.error = CodeMsg(a.items[1], a.items[2])
            /\ mapping => r.ok /\ r.effect.error = ErrorDict(a.d)
            /\ (a.t = "effexc" /\ a.inner.present) =>
                    r.ok /\ r.effect.error = a.inner
            /\ ~(\/ a.t \in {"int", "str"}
                 \/ a.t = "tuple" /\ Len(a.items) = 2
                 \/ mapping
                 \/ a.t = "effexc" /\ a.inner.present) =>
                    ~r.ok /\ r.fault = "ValueError"

\* the instance bindings register went through, in order
RECURSIVE InstancesOf(_, _)
InstancesOf(items, n) ==
    IF n = 0 THEN <<>>
    ELSE IF items[n][2].t = "instance"
         THEN Append(InstancesOf(items, n - 1), items[n][2].inst)
         ELSE InstancesOf(items, n - 1)

\* C10 as stated: register calls the initialise hook of every instance it is
\* given once and binds the name to the handler the hook returns; a later
\* request for the name is dispatched on that handler.
C10_BindsHookResult ==
    /\ lastRegister.done =>
        /\ lastRegister.hooks =
                InstancesOf(lastRegister.services.items, lastRegister.processed)
        /\ \A i \in 1..lastRegister.processed :
                LET k == lastRegister.services.items[i][1]
                    v == lastRegister.services.items[i][2]
                IN  v.t = "instance" =>
                        mdRegistered[k] = Local(InitialiseOf(v.inst))
    /\ (lastCall.done /\ lastCall.entry.kind = "instance") =>
            \A j \in 1..Len(lastCall.out.dispatches) :
                lastCall.out.dispatches[j].inst = lastCall.entry.instance

\* C10 amended: register calls the initialise hook of every instance it is
\* given once and binds the name to the instance it was given, whatever the
\* hook returns; a later request for the name is dispatched on that instance.
C10_BindsGivenInstance ==
    /\ lastRegister.done =>
        /\ lastRegister.hooks =
                InstancesOf(lastRegister.services.items, lastRegister.processed)
        /\ \A i \in 1..lastRegister.processed :
                LET k == lastRegister.services.items[i][1]
                    v == lastRegister.services.items[i][2]
                IN  v.t = "instance" => mdRegistered[k] = Local(v.inst)
    /\ (lastCall.done /\ lastCall.entry.kind = "instance") =>
            /\ lastCall.entry.instance \in Instances
            /\ \A j \in 1..Len(lastCall.out.dispatches) :
                lastCall.out.dispatches[j].inst = lastCall.entry.instance
            /\ \A j \in 1..Len(lastCall.out.calls) :
                lastCall.out.calls[j].inst = lastCall.entry.instance

\* an instance whose hook returns a wrapper was registered, and a request for
\* its name reached a noun method of the instance itself
C10_Witness ==
    /\ lastRegister.done
    /\ \E i \in 1..lastRegister.processed :
            /\ lastRegister.services.items[i][1] = lastCall.service
            /\ lastRegister.services.items[i][2].t = "instance"
            /\ InitialiseOf(lastRegister.services.items[i][2].inst)
                    # lastRegister.services.items[i][2].inst
    /\ lastCall.done
    /\ Len(lastCall.out.calls) = 1
    /\ lastCall.out.calls[1].inst = lastCall.entry.instance

====
